---- MODULE Spec2Model ----
(***************************************************************************)
(* A model of src/scrapper.py: the Scrapper's construction (session probe  *)
(* and CAPTCHA login), get_protocols (row and media extraction) and the    *)
(* amount conversion format_money_element.                                 *)
(*                                                                         *)
(* Texts are sequences of one-character strings.  Python's float is an     *)
(* IEEE-754 double: a sign, a 53 bit significand (a sequence of bits, the   *)
(* most significant first) and the binary exponent of its last bit.        *)
(***************************************************************************)
EXTENDS Integers, Sequences, FiniteSets, TLC

VARIABLES
    \* Scrapper.__init__, _is_authenticated, _authenticate
    auth_pc,            \* where the construction stands
    config_session_id,  \* self._config.session_id
    prior_session_id,   \* config.session_id as the caller passed it (never changes)
    cookies,            \* the PHPSESSID cookie of self._session
    probe_valid,        \* what _is_authenticated returned ("unset" before)
    login_page,         \* what the parse of the login page found
    captcha_text,       \* the CAPTCHA oracle's answer
    listing_redirect,   \* whether the login response's final url was the listing
    auth_result,        \* what _authenticate returned ("unset" before)
    ctor_exc,           \* the exception that ended the construction, "" when none
    auth_log,           \* the requests and oracle calls made, in order
    \* get_protocols, _get_protocol_info, _get_protocol_media
    sc_pc,              \* where the get_protocols call stands
    listing,            \* the listing page the call fetched
    row_idx,            \* the row process_protocol_row is working on
    protocol,           \* the Protocol of that row, waiting for its media
    wrapper,            \* the attachment wrapper of that row's detail page
    child_idx,          \* the placeholder create_media_blob is working on
    media,              \* the Media items collected for that row so far
    protocols,          \* the Protocols map() has produced so far
    details,            \* the detail pages fetched, with their rows
    requests,           \* the GET requests issued, in order
    result,             \* what the caller received
    sc_exc,             \* the exception that ended the call, "" when none
    \* format_money_element
    amount_col,         \* the descendants of the amount column
    money_pc,           \* "start" | "done"
    money_result        \* what the call returned or raised

authVars == <<auth_pc, config_session_id, prior_session_id, cookies, probe_valid,
              login_page, captcha_text, listing_redirect, auth_result, ctor_exc,
              auth_log>>

scrapeVars == <<sc_pc, listing, row_idx, protocol, wrapper, child_idx, media,
                protocols, details, requests, result, sc_exc>>

moneyVars == <<amount_col, money_pc, money_result>>

vars == <<authVars, scrapeVars, moneyVars>>

-----------------------------------------------------------------------------
(* Bounds of the model *)

MaxWhole == 15          \* largest integer part of an amount text
MaxFracLen == 3         \* most digits after the decimal point of an amount text
MaxRows == 2            \* most rows of a listing page
MaxChildren == 2        \* most children of a detail page's attachment wrapper

-----------------------------------------------------------------------------
(* Characters and decimal digits *)

Digit == {"0", "1", "2", "3", "4", "5", "6", "7", "8", "9"}

DigitVal(c) ==
    CASE c = "0" -> 0 [] c = "1" -> 1 [] c = "2" -> 2 [] c = "3" -> 3
      [] c = "4" -> 4 [] c = "5" -> 5 [] c = "6" -> 6 [] c = "7" -> 7
      [] c = "8" -> 8 [] c = "9" -> 9

DigitChar(d) ==
    CASE d = 0 -> "0" [] d = 1 -> "1" [] d = 2 -> "2" [] d = 3 -> "3"
      [] d = 4 -> "4" [] d = 5 -> "5" [] d = 6 -> "6" [] d = 7 -> "7"
      [] d = 8 -> "8" [] d = 9 -> "9"

AllDigits(s) == \A i \in 1..Len(s) : s[i] \in Digit

RECURSIVE DigitsVal(_)
DigitsVal(s) ==
    IF s = <<>> THEN 0
    ELSE 10 * DigitsVal(SubSeq(s, 1, Len(s) - 1)) + DigitVal(s[Len(s)])

RECURSIVE IntText(_)
IntText(i) ==
    IF i < 10 THEN <<DigitChar(i)>>
    ELSE Append(IntText(i \div 10), DigitChar(i % 10))

RECURSIVE Pow10(_)
Pow10(k) == IF k = 0 THEN 1 ELSE 10 * Pow10(k - 1)

\* s[:-n] of Python: all but the last n characters, empty when s is shorter.
DropLast(s, n) == IF Len(s) <= n THEN <<>> ELSE SubSeq(s, 1, Len(s) - n)

\* The index of the first c in s, 0 when there is none.
RECURSIVE IndexFrom(_, _, _)
IndexFrom(s, c, i) ==
    IF i > Len(s) THEN 0
    ELSE IF s[i] = c THEN i
    ELSE IndexFrom(s, c, i + 1)

IndexOf(s, c) == IndexFrom(s, c, 1)

-----------------------------------------------------------------------------
(* IEEE-754 double arithmetic, as far as float(text) * 100 and math.ceil   *)
(* need it                                                                 *)

DoubleMantissa == 53

\* Long arithmetic is done on limbs of so many bits.
LimbBits == 20

\* The w-bit binary numeral of v (0 <= v < 2^w).
FixedBits(v, w) == [i \in 1..w |-> (v \div (2 ^ (w - i))) % 2]

\* The number of bits of v (0 <= v < 2^30).
BitLen(v) == CHOOSE L \in 0..30 : v < 2 ^ L /\ (L = 0 \/ v >= 2 ^ (L - 1))

\* The binary numeral of v without leading zeros.
IntBits(v) == FixedBits(v, BitLen(v))

\* The value of a binary numeral of at most 30 bits.
RECURSIVE BitsToInt(_)
BitsToInt(b) ==
    IF Len(b) = 0 THEN 0
    ELSE IF Len(b) = 1 THEN b[1]
    ELSE LET h == Len(b) \div 2
         IN  BitsToInt(SubSeq(b, 1, h)) * (2 ^ (Len(b) - h))
                 + BitsToInt(SubSeq(b, h + 1, Len(b)))

\* 2^i modulo d (d <= 2^15).
RECURSIVE PowMod(_, _)
PowMod(i, d) ==
    IF i <= LimbBits THEN (2 ^ i) % d
    ELSE (PowMod(i - LimbBits, d) * ((2 ^ LimbBits) % d)) % d

\* The remainder of the fraction r/d after i binary digits: 2^i * r modulo d.
FracRem(r, d, i) == (r * PowMod(i, d)) % d

\* The first cnt binary digits of the fraction r/d (0 <= r < d), and the
\* remainder they leave.
FracBits(r, d, cnt) ==
    [bits |-> [i \in 1..cnt |-> (2 * FracRem(r, d, i - 1)) \div d],
     rem |-> FracRem(r, d, cnt)]

\* The number of zero bits the fraction r/d (0 < r < d) starts with.
RECURSIVE LeadingZeros(_, _)
LeadingZeros(r, d) == IF 2 * r >= d THEN 0 ELSE 1 + LeadingZeros(2 * r, d)

\* The bits of b * c + carry, for a numeral b of at most three limbs and
\* c, carry <= 1000.
MulAdd(b, c, carry) ==
    LET n == Len(b)
        lim(lo, hi) == BitsToInt(SubSeq(b, IF lo < 1 THEN 1 ELSE lo, hi))
        p0 == lim(n - LimbBits + 1, n) * c + carry
        p1 == lim(n - 2 * LimbBits + 1, n - LimbBits) * c + p0 \div (2 ^ LimbBits)
        p2 == lim(1, n - 2 * LimbBits) * c + p1 \div (2 ^ LimbBits)
        low(p) == FixedBits(p % (2 ^ LimbBits), LimbBits)
    IN  IF n <= LimbBits THEN IntBits(p0)
        ELSE IF n <= 2 * LimbBits THEN IntBits(p1) \o low(p0)
        ELSE IntBits(p2) \o low(p1) \o low(p0)

\* Round to nearest, ties to even: bits (a leading 1) whose last bit weighs
\* 2^exp, followed by a discarded non-zero part iff sticky.
Round53(bits, exp, sticky, neg) ==
    IF Len(bits) <= DoubleMantissa
    THEN [zero |-> FALSE, neg |-> neg,
          mant |-> bits \o [i \in 1..(DoubleMantissa - Len(bits)) |-> 0],
          exp |-> exp - (DoubleMantissa - Len(bits))]
    ELSE LET keep == SubSeq(bits, 1, DoubleMantissa)
             guard == bits[DoubleMantissa + 1]
             st == sticky \/ \E i \in (DoubleMantissa + 2)..Len(bits) : bits[i] = 1
             drop == Len(bits) - DoubleMantissa
             up == guard = 1 /\ (st \/ keep[DoubleMantissa] = 1)
             inc == IF up THEN MulAdd(keep, 1, 1) ELSE keep
         IN  IF Len(inc) > DoubleMantissa
             THEN [zero |-> FALSE, neg |-> neg,
                   mant |-> SubSeq(inc, 1, DoubleMantissa), exp |-> exp + drop + 1]
             ELSE [zero |-> FALSE, neg |-> neg, mant |-> inc, exp |-> exp + drop]

\* The double nearest to n/d (n >= 0, d > 0), negated when neg.
ToDouble(n, d, neg) ==
    IF n = 0 THEN [zero |-> TRUE, neg |-> neg, mant |-> <<>>, exp |-> 0]
    ELSE LET ib == IntBits(n \div d)
             r == n % d
             z == IF n \div d = 0 THEN LeadingZeros(r, d) ELSE 0
             cnt == DoubleMantissa + 1 + z - Len(ib)
             fb == FracBits(r, d, cnt)
         IN  Round53(ib \o SubSeq(fb.bits, z + 1, cnt), 0 - cnt, fb.rem # 0, neg)

\* x * c for a double x and a small positive integer c (c is exact as a double).
DoubleTimes(x, c) ==
    IF x.zero THEN x
    ELSE Round53(MulAdd(x.mant, c, 0), x.exp, FALSE, x.neg)

\* math.ceil of a double below 2^31 in magnitude.
Ceil(x) ==
    IF x.zero THEN 0
    ELSE LET cut == DoubleMantissa + x.exp           \* bits left of the binary point
             ip == IF cut <= 0 THEN 0 ELSE BitsToInt(SubSeq(x.mant, 1, cut))
             frac == \E i \in 1..DoubleMantissa : i > cut /\ x.mant[i] = 1
         IN  IF x.neg THEN 0 - ip
             ELSE IF frac THEN ip + 1 ELSE ip

-----------------------------------------------------------------------------
(* float(text)                                                             *)

RECURSIVE StripLeft(_)
StripLeft(s) ==
    IF s # <<>> /\ s[1] = " " THEN StripLeft(Tail(s)) ELSE s

RECURSIVE StripRight(_)
StripRight(s) ==
    IF s # <<>> /\ s[Len(s)] = " " THEN StripRight(SubSeq(s, 1, Len(s) - 1)) ELSE s

\* The decimal a text denotes for float(): an optional sign, digits, at most
\* one point and at least one digit, surrounding blanks ignored; n / 10^k.
\* (Exponents, inf, nan and digit-group underscores use characters the
\* amount texts below do not contain left of their last four characters.)
ParseDecimal(text) ==
    LET s == StripRight(StripLeft(text))
        signed == s # <<>> /\ s[1] \in {"-", "+"}
        body == IF signed THEN Tail(s) ELSE s
        p == IndexOf(body, ".")
        ip == IF p = 0 THEN body ELSE SubSeq(body, 1, p - 1)
        fp == IF p = 0 THEN <<>> ELSE SubSeq(body, p + 1, Len(body))
    IN  IF AllDigits(ip) /\ AllDigits(fp) /\ Len(ip) + Len(fp) > 0
        THEN [ok |-> TRUE, neg |-> signed /\ s[1] = "-",
              n |-> DigitsVal(ip \o fp), k |-> Len(fp)]
        ELSE [ok |-> FALSE, neg |-> FALSE, n |-> 0, k |-> 0]

-----------------------------------------------------------------------------
(* format_money_element                                                    *)

TextNode(s) == [kind |-> "text", text |-> s]
TagNode(s) == [kind |-> "tag", text |-> s]

Returned(v) == [raised |-> "", value |-> v]
Raised(e) == [raised |-> e, value |-> 0]

\* descendants: list(tag.descendants) of the amount column.
format_money_element(descendants) ==
    IF Len(descendants) > 0
    THEN LET raw_amount == descendants[1]
         IN  IF raw_amount.kind # "text"
             THEN Raised("TypeError")           \* Tag[:-4] looks up an attribute
             ELSE LET d == ParseDecimal(DropLast(raw_amount.text, 4))
                  IN  IF ~d.ok THEN Raised("ValueError")
                      ELSE Returned(Ceil(DoubleTimes(ToDouble(d.n, Pow10(d.k), d.neg), 100)))
    ELSE Returned(0)

-----------------------------------------------------------------------------
(* The amount texts format_money_element is tried on                       *)

Suffix4 == <<"X", "X", "X", "X">>
Suffix3 == <<"G", "E", "L">>

FracTexts == UNION {[1..k -> Digit] : k \in 1..MaxFracLen}

NumberTexts ==
    {IntText(w) : w \in 0..MaxWhole}
    \cup {IntText(w) \o <<".">> \o f : w \in 0..MaxWhole, f \in FracTexts}

JunkTexts == {<<"N", "/", "A">>, <<"-", " ", "X", "X", "X", "X">>}

AmountColumns ==
    {<<>>}
    \cup {<<TextNode(n \o sfx)>> : n \in NumberTexts, sfx \in {Suffix4, Suffix3}}
    \cup {<<TextNode(t)>> : t \in JunkTexts}
    \cup {<<TagNode(n \o Suffix4), TextNode(n \o Suffix4)>> :
              n \in {<<"1", "5", ".", "5", "0">>}}

-----------------------------------------------------------------------------
(* Scrapper.__init__                                                       *)

None == "None"
Unsolved == "int 0"         \* solve_and_return_solution's failure value, 0

PriorSessionIds == {None, "sid-old"}
ServerSessionIds == {"sid-a", "sid-b"}
CaptchaAnswers == {Unsolved, "k7w3", "x2m9"}

Truthy(v) == v # None /\ v # ""

AuthIdle ==
    /\ auth_pc = "idle"
    /\ config_session_id = None
    /\ prior_session_id = None
    /\ cookies = None
    /\ probe_valid = "unset"
    /\ login_page = [captcha_img |-> FALSE, csrf_token |-> FALSE]
    /\ captcha_text = "unset"
    /\ listing_redirect = FALSE
    /\ auth_result = "unset"
    /\ ctor_exc = ""
    /\ auth_log = <<>>

AuthInit ==
    /\ auth_pc = "new"
    /\ prior_session_id \in PriorSessionIds
    /\ config_session_id = prior_session_id
    /\ cookies = None
    /\ probe_valid = "unset"
    /\ login_page = [captcha_img |-> FALSE, csrf_token |-> FALSE]
    /\ captcha_text = "unset"
    /\ listing_redirect = FALSE
    /\ auth_result = "unset"
    /\ ctor_exc = ""
    /\ auth_log = <<>>

\* A response may carry a Set-Cookie for PHPSESSID: the jar after it.
CookiesAfter(jar) == {jar} \cup ServerSessionIds

\* _is_authenticated's verdict on the probe response: response.url == url.
IsAuthenticated(redirected) == ~redirected

\* Lines 27-30: seed the cookie jar, probe, and authenticate only on failure.
Construct ==
    /\ auth_pc = "new"
    /\ \E redirected \in BOOLEAN :
         \E jar \in CookiesAfter(IF Truthy(config_session_id)
                                 THEN config_session_id ELSE None) :
            /\ cookies' = jar
            /\ probe_valid' = IF IsAuthenticated(redirected) THEN "True" ELSE "False"
            /\ auth_pc' = IF IsAuthenticated(redirected) THEN "constructed"
                                                         ELSE "authenticate"
    /\ auth_log' = Append(auth_log, "GET protocols.php")
    /\ UNCHANGED <<config_session_id, prior_session_id, login_page, captcha_text,
                   listing_redirect, auth_result, ctor_exc>>

\* A null result answered by another attempt instead of the fatal error.
AuthReturnRetrying(session_id) ==
    /\ auth_result' = session_id
    /\ config_session_id' = session_id
    /\ ctor_exc' = ""
    /\ auth_pc' = IF Truthy(session_id) THEN "constructed" ELSE "authenticate"

\* Lines 31-33: the assignment of _authenticate's result and the check of it.
AuthReturn(session_id) ==
    /\ auth_result' = session_id
    /\ config_session_id' = session_id
    /\ IF Truthy(session_id)
       THEN auth_pc' = "constructed" /\ ctor_exc' = ""
       ELSE auth_pc' = "raised" /\ ctor_exc' = "Exception"

\* An exception inside _authenticate: nothing is assigned, it propagates.
AuthRaise(exc) ==
    /\ auth_pc' = "raised"
    /\ ctor_exc' = exc
    /\ UNCHANGED <<auth_result, config_session_id>>

\* Lines 47-55: clear the cookies, GET the login page, find the CAPTCHA image
\* and the token field; captcha_img["src"] raises when the image is missing.
AuthLoginPage ==
    /\ auth_pc = "authenticate"
    /\ \E page \in [captcha_img : BOOLEAN, csrf_token : BOOLEAN] :
         /\ login_page' = page
         /\ IF page.captcha_img
            THEN auth_pc' = "captcha" /\ UNCHANGED <<ctor_exc, auth_result, config_session_id>>
            ELSE AuthRaise("TypeError")
    /\ cookies' \in CookiesAfter(None)
    /\ auth_log' = auth_log \o <<"cookies.clear", "GET base_url">>
    /\ UNCHANGED <<prior_session_id, probe_valid, captcha_text, listing_redirect>>

\* Lines 55-57: GET the CAPTCHA image and write it to /tmp/captcha.png.
AuthFetchCaptcha ==
    /\ auth_pc = "captcha"
    /\ auth_pc' = "solve"
    /\ cookies' \in CookiesAfter(cookies)
    /\ auth_log' = Append(auth_log, "GET captcha")
    /\ UNCHANGED <<config_session_id, prior_session_id, probe_valid, login_page,
                   captcha_text, listing_redirect, auth_result, ctor_exc>>

\* The oracle's answer compared with None instead of 0.
IsNone(answer) == answer = None

\* Line 66: captcha_text == 0.
IsUnsolved(answer) == answer = Unsolved

\* Lines 59-93: ask the oracle; return None on its failure value; otherwise
\* build the form, where csrf_token["value"] raises when the field is missing.
AuthSolve ==
    /\ auth_pc = "solve"
    /\ \E answer \in CaptchaAnswers :
         /\ captcha_text' = answer
         /\ IF IsUnsolved(answer) THEN AuthReturn(None)
            ELSE IF ~login_page.csrf_token THEN AuthRaise("TypeError")
            ELSE auth_pc' = "post" /\ UNCHANGED <<ctor_exc, auth_result, config_session_id>>
    /\ auth_log' = Append(auth_log, "oracle")
    /\ UNCHANGED <<prior_session_id, cookies, probe_valid, login_page, listing_redirect>>

\* Lines 82-109: POST the credentials; on the listing url return the PHPSESSID
\* cookie (None when the jar has none), otherwise log the warning, return None.
AuthPost ==
    /\ auth_pc = "post"
    /\ \E to_listing \in BOOLEAN :
         \E jar \in CookiesAfter(cookies) :
            /\ listing_redirect' = to_listing
            /\ cookies' = jar
            /\ AuthReturn(IF to_listing THEN jar ELSE None)
    /\ auth_log' = Append(auth_log, "POST submit-index.php")
    /\ UNCHANGED <<prior_session_id, probe_valid, login_page, captcha_text>>

-----------------------------------------------------------------------------
(* _get_protocol_info                                                      *)

\* A column is the list of its descendants; a tag (a row or a link) has the
\* span.col columns outside any link of it, in cols, and its first link, a.
NoLink == [present |-> FALSE, href |-> "", cols |-> <<>>]

\* tag.find_all("span", {"class": "col"}): every column below the tag.
find_all_cols(tag) == tag.cols \o tag.a.cols

\* The strings among a column's descendants, in order.
Strings(col) ==
    LET texts == SelectSeq(col, LAMBDA n : n.kind = "text")
    IN  [i \in 1..Len(texts) |-> texts[i].text]

\* tag.text: the strings below the tag joined.
RECURSIVE Join(_)
Join(ss) == IF ss = <<>> THEN <<>> ELSE Head(ss) \o Join(Tail(ss))

ColText(col) == Join(Strings(col))

IsLeap(y) == (y % 4 = 0 /\ y % 100 # 0) \/ y % 400 = 0

DaysIn(m, y) ==
    IF m = 2 THEN (IF IsLeap(y) THEN 29 ELSE 28)
    ELSE IF m \in {4, 6, 9, 11} THEN 30 ELSE 31

\* datetime.datetime.strptime(text, "%d.%m.%Y").date()
strptime(text) ==
    LET p1 == IndexOf(text, ".")
        rest == SubSeq(text, p1 + 1, Len(text))
        p2 == IndexOf(rest, ".")
        d == SubSeq(text, 1, p1 - 1)
        m == SubSeq(rest, 1, p2 - 1)
        y == SubSeq(rest, p2 + 1, Len(rest))
        shaped == /\ p1 > 0 /\ p2 > 0
                  /\ AllDigits(d) /\ Len(d) \in 1..2
                  /\ AllDigits(m) /\ Len(m) \in 1..2
                  /\ AllDigits(y) /\ Len(y) = 4
    IN  IF shaped /\ DigitsVal(y) >= 1 /\ DigitsVal(m) \in 1..12
             /\ DigitsVal(d) \in 1..DaysIn(DigitsVal(m), DigitsVal(y))
        THEN [raised |-> "",
              value |-> [year |-> DigitsVal(y), month |-> DigitsVal(m), day |-> DigitsVal(d)]]
        ELSE [raised |-> "ValueError", value |-> [year |-> 0, month |-> 0, day |-> 0]]

format_date(col) ==
    IF Len(col) = 0
    THEN [raised |-> "IndexError", value |-> [year |-> 0, month |-> 0, day |-> 0]]
    ELSE strptime(col[1].text)

\* The portal's two status texts, transliterated.
PaidOnTimeText == <<"g", "a", "d", "a", "k", "h", "d", "i", "l", "i", "a", " ",
                    "d", "r", "o", "u", "l", "a", "d">>
UnpaidText == <<"g", "a", "d", "a", "u", "k", "h", "d", "e", "l", "i", "a">>

format_status(col) ==
    IF ColText(col) = PaidOnTimeText THEN "PAID_ON_TIME"
    ELSE IF ColText(col) = UnpaidText THEN "UNPAID"
    ELSE "UNKNOWN"

NullProtocol ==
    [protocol_number |-> <<>>, car_state_number |-> <<>>,
     date |-> [year |-> 0, month |-> 0, day |-> 0], violation_code |-> <<>>,
     amount |-> 0, status |-> "UNKNOWN", media |-> <<>>]

\* Lines 134-179; Python's cols[k] is cols[k + 1] here.
_get_protocol_info(tag) ==
    LET cols == find_all_cols(tag)
        receipt_and_numbers == Strings(cols[2])
        date == format_date(cols[3])
        amount == format_money_element(cols[5])
    IN  IF Len(cols) < 2 THEN [raised |-> "IndexError", value |-> NullProtocol]
        ELSE IF Len(receipt_and_numbers) < 2
        THEN [raised |-> "IndexError", value |-> NullProtocol]
        ELSE IF Len(cols) < 3 THEN [raised |-> "IndexError", value |-> NullProtocol]
        ELSE IF date.raised # "" THEN [raised |-> date.raised, value |-> NullProtocol]
        ELSE IF Len(cols) < 5 THEN [raised |-> "IndexError", value |-> NullProtocol]
        ELSE IF amount.raised # "" THEN [raised |-> amount.raised, value |-> NullProtocol]
        ELSE IF Len(cols) < 7 THEN [raised |-> "IndexError", value |-> NullProtocol]
        ELSE [raised |-> "",
              value |-> [protocol_number |-> receipt_and_numbers[1],
                         car_state_number |-> receipt_and_numbers[2],
                         date |-> date.value,
                         violation_code |-> ColText(cols[4]),
                         amount |-> amount.value,
                         status |-> format_status(cols[7]),
                         media |-> <<>>]]

-----------------------------------------------------------------------------
(* The pages get_protocols is tried on                                     *)

\* The protocol number of the i-th row of a listing.
ProtocolNoText(i) == <<"0", "0", "0", "1", "1", "2">> \o IntText(i)
CarNoText == <<"A", "A", "-", "0", "0", "1", "-", "B", "B">>
CodeText == <<"K", "-", "5">>
DateTexts == {<<"0", "1", ".", "0", "5", ".", "2", "0", "2", "3">>,
              <<"2", "0", "2", "3", "-", "0", "5", "-", "0", "1">>}
RowAmountColumns ==
    {<<TextNode(<<"1", "5", ".", "5", "0">> \o Suffix3)>>,
     <<TextNode(<<"N", "/", "A">>)>>}

InfoCols(i, date, amount) ==
    << <<>>,
       <<TextNode(ProtocolNoText(i)), TagNode(<<>>), TextNode(CarNoText)>>,
       <<TextNode(date)>>,
       <<TextNode(CodeText)>>,
       amount,
       <<>>,
       <<TextNode(UnpaidText)>> >>

RowShapes == [link : BOOLEAN, date : DateTexts, amount : RowAmountColumns]

\* The i-th row: its columns inside a detail link, or a row without a link.
Row(i, shape) ==
    IF shape.link
    THEN [cols |-> <<>>,
          a |-> [present |-> TRUE, href |-> "media.php",
                 cols |-> InfoCols(i, shape.date, shape.amount)]]
    ELSE [cols |-> InfoCols(i, shape.date, shape.amount), a |-> NoLink]

\* grid: whether the page has the div.grid; rows: the div.row elements in it.
ListingPages ==
    {[grid |-> FALSE, rows |-> <<>>]}
    \cup {[grid |-> TRUE, rows |-> [i \in 1..n |-> Row(i, shapes[i])]] :
             n \in 0..MaxRows, shapes \in [1..MaxRows -> RowShapes]}

\* The children of an attachment wrapper: a div with an image, a div with the
\* oggvideo reference in its markup, a div with neither, and an element that
\* is no div.
ChildSamples ==
    {[name |-> "div", img |-> TRUE, src |-> "/img/x.png", ogg |-> FALSE, id |-> ""],
     [name |-> "div", img |-> FALSE, src |-> "", ogg |-> TRUE, id |-> "42"],
     [name |-> "div", img |-> FALSE, src |-> "", ogg |-> FALSE, id |-> ""],
     [name |-> "script", img |-> FALSE, src |-> "", ogg |-> TRUE, id |-> "7"]}

Wrappers == UNION {[1..n -> ChildSamples] : n \in 0..MaxChildren}

\* content: the page has div#content; inner: that has a div below it;
\* sections: the div children of that div, each the list of its children.
DetailPages ==
    {[content |-> FALSE, inner |-> FALSE, sections |-> <<>>],
     [content |-> TRUE, inner |-> FALSE, sections |-> <<>>],
     [content |-> TRUE, inner |-> TRUE, sections |-> << <<>> >>]}
    \cup {[content |-> TRUE, inner |-> TRUE, sections |-> << <<>>, w >>] : w \in Wrappers}

-----------------------------------------------------------------------------
(* get_protocols                                                           *)

NoResult == [returned |-> FALSE, value |-> <<>>]

ScrapeIdle ==
    /\ sc_pc = "idle"
    /\ listing = [grid |-> FALSE, rows |-> <<>>]
    /\ row_idx = 0
    /\ protocol = NullProtocol
    /\ wrapper = <<>>
    /\ child_idx = 0
    /\ media = <<>>
    /\ protocols = <<>>
    /\ details = <<>>
    /\ requests = <<>>
    /\ result = NoResult
    /\ sc_exc = ""

ScrapeInit ==
    /\ sc_pc = "start"
    /\ listing = [grid |-> FALSE, rows |-> <<>>]
    /\ row_idx = 0
    /\ protocol = NullProtocol
    /\ wrapper = <<>>
    /\ child_idx = 0
    /\ media = <<>>
    /\ protocols = <<>>
    /\ details = <<>>
    /\ requests = <<>>
    /\ result = NoResult
    /\ sc_exc = ""

Reverse(q) == [i \in 1..Len(q) |-> q[Len(q) + 1 - i]]

\* The rows taken bottom-up.
find_rows_bottom_up(page) == Reverse(page.rows)

\* soup.find("div", {"class": "grid"}).find_all("div", {"class": "row"})
find_rows(page) == page.rows

\* Every child taken for a placeholder, div or not.
all_children(w) == [j \in 1..Len(w) |-> j]

\* The div children taken last to first.
div_children_reversed(w) ==
    Reverse(SelectSeq([j \in 1..Len(w) |-> j], LAMBDA j : w[j].name = "div"))

\* wrapper.find_all("div", recursive=False): the positions of the wrapper's
\* div children, in markup order.
div_children(w) ==
    SelectSeq([j \in 1..Len(w) |-> j], LAMBDA j : w[j].name = "div")

\* The exception swallowed and the Protocols made so far handed over.
RaiseWithPartialResult(exc) ==
    /\ sc_pc' = "returned"
    /\ sc_exc' = exc
    /\ result' = [returned |-> TRUE, value |-> protocols]
    /\ UNCHANGED <<row_idx, protocols>>

\* An exception leaves get_protocols: list(map(...)) is abandoned.
Raise(exc) ==
    /\ sc_pc' = "raised"
    /\ sc_exc' = exc
    /\ result' = result
    /\ UNCHANGED <<row_idx, protocols>>

\* process_protocol_row returned p: map() goes on, or list() is complete.
Yield(p) ==
    /\ protocols' = Append(protocols, p)
    /\ sc_exc' = sc_exc
    /\ IF row_idx = Len(find_rows(listing))
       THEN /\ sc_pc' = "returned"
            /\ result' = [returned |-> TRUE, value |-> Append(protocols, p)]
            /\ row_idx' = row_idx
       ELSE /\ sc_pc' = "row"
            /\ result' = result
            /\ row_idx' = row_idx + 1

\* Lines 116-120 and 132 for a listing without rows.
GetListing ==
    /\ sc_pc = "start"
    /\ \E page \in ListingPages :
         /\ listing' = page
         /\ IF ~page.grid
            THEN Raise("AttributeError")
            ELSE IF Len(find_rows(page)) = 0
            THEN /\ sc_pc' = "returned"
                 /\ result' = [returned |-> TRUE, value |-> <<>>]
                 /\ UNCHANGED <<row_idx, protocols, sc_exc>>
            ELSE /\ sc_pc' = "row"
                 /\ row_idx' = 1
                 /\ UNCHANGED <<protocols, result, sc_exc>>
    /\ requests' = Append(requests, [kind |-> "listing", row |-> 0, pos |-> 0])
    /\ UNCHANGED <<protocol, wrapper, child_idx, media, details>>

\* Lines 122-130 up to the detail page's request.
ProcessRow ==
    /\ sc_pc = "row"
    /\ LET row == find_rows(listing)[row_idx]
           media_link == row.a
           info == IF media_link.present
                   THEN _get_protocol_info([cols |-> media_link.cols, a |-> NoLink])
                   ELSE _get_protocol_info(row)
       IN  IF info.raised # ""
           THEN Raise(info.raised) /\ UNCHANGED protocol
           ELSE IF media_link.present
           THEN /\ protocol' = info.value
                /\ sc_pc' = "detail"
                /\ UNCHANGED <<row_idx, protocols, result, sc_exc>>
           ELSE Yield(info.value) /\ UNCHANGED protocol
    /\ UNCHANGED <<listing, wrapper, child_idx, media, details, requests>>

\* Lines 181-190 and 206 for a wrapper without div children.
GetDetail ==
    /\ sc_pc = "detail"
    /\ \E page \in DetailPages :
         /\ details' = Append(details, [row |-> row_idx, page |-> page])
         /\ IF ~page.content \/ ~page.inner
            THEN Raise("AttributeError") /\ UNCHANGED <<wrapper, child_idx>>
            ELSE IF Len(page.sections) < 2
            THEN Raise("IndexError") /\ UNCHANGED <<wrapper, child_idx>>
            ELSE IF Len(div_children(page.sections[2])) = 0
            THEN /\ Yield([protocol EXCEPT !.media = <<>>])
                 /\ UNCHANGED <<wrapper, child_idx>>
            ELSE /\ wrapper' = page.sections[2]
                 /\ child_idx' = 1
                 /\ sc_pc' = "media"
                 /\ UNCHANGED <<row_idx, protocols, result, sc_exc>>
    /\ media' = <<>>
    /\ requests' = Append(requests, [kind |-> "detail", row |-> row_idx, pos |-> 0])
    /\ UNCHANGED <<listing, protocol>>

\* Lines 192-204: create_media_blob on the next placeholder, and line 126
\* after the last one.
GetMedia ==
    /\ sc_pc = "media"
    /\ LET pos == div_children(wrapper)[child_idx]
           tag == wrapper[pos]
           url == IF tag.img THEN <<tag.src>> ELSE <<"oggvideo-", tag.id, ".ogg">>
           item == [blob |-> <<"content of">> \o url,
                    type |-> IF tag.img THEN "PNG" ELSE "OGG"]
       IN  IF ~tag.img /\ ~tag.ogg
           THEN /\ Raise("AttributeError")
                /\ UNCHANGED <<media, requests, child_idx>>
           ELSE /\ media' = Append(media, item)
                /\ requests' = Append(requests,
                                      [kind |-> "media", row |-> row_idx, pos |-> pos])
                /\ IF child_idx = Len(div_children(wrapper))
                   THEN /\ Yield([protocol EXCEPT !.media = Append(media, item)])
                        /\ UNCHANGED child_idx
                   ELSE /\ child_idx' = child_idx + 1
                        /\ UNCHANGED <<sc_pc, row_idx, protocols, result, sc_exc>>
    /\ UNCHANGED <<listing, protocol, wrapper, details>>

-----------------------------------------------------------------------------
(* format_money_element as a call of its own                               *)

MoneyIdle ==
    /\ amount_col = <<>>
    /\ money_pc = "idle"
    /\ money_result = Returned(0)

MoneyInit ==
    /\ amount_col \in AmountColumns
    /\ money_pc = "start"
    /\ money_result = Returned(0)

FormatMoney ==
    /\ money_pc = "start"
    /\ money_result' = format_money_element(amount_col)
    /\ money_pc' = "done"
    /\ UNCHANGED amount_col

-----------------------------------------------------------------------------
(* Specifications                                                          *)

AuthNext ==
    \/ Construct /\ UNCHANGED <<scrapeVars, moneyVars>>
    \/ AuthLoginPage /\ UNCHANGED <<scrapeVars, moneyVars>>
    \/ AuthFetchCaptcha /\ UNCHANGED <<scrapeVars, moneyVars>>
    \/ AuthSolve /\ UNCHANGED <<scrapeVars, moneyVars>>
    \/ AuthPost /\ UNCHANGED <<scrapeVars, moneyVars>>

InitAuth == AuthInit /\ ScrapeIdle /\ MoneyIdle

ScrapeNext ==
    \/ GetListing /\ UNCHANGED <<authVars, moneyVars>>
    \/ ProcessRow /\ UNCHANGED <<authVars, moneyVars>>
    \/ GetDetail /\ UNCHANGED <<authVars, moneyVars>>
    \/ GetMedia /\ UNCHANGED <<authVars, moneyVars>>

InitScrape == ScrapeInit /\ AuthIdle /\ MoneyIdle

SpecScrape == InitScrape /\ [][ScrapeNext]_vars

SpecAuth == InitAuth /\ [][AuthNext]_vars

MoneyNext == FormatMoney /\ UNCHANGED <<authVars, scrapeVars>>

InitMoney == MoneyInit /\ AuthIdle /\ ScrapeIdle

SpecMoney == InitMoney /\ [][MoneyNext]_vars

-----------------------------------------------------------------------------
(* Claims about the construction (SpecAuth)                                *)

Has(log, e) == \E i \in 1..Len(log) : log[i] = e
Count(log, e) == Cardinality({i \in 1..Len(log) : log[i] = e})
Before(log, a, b) ==
    \A j \in 1..Len(log) : log[j] = b => \E i \in 1..(j - 1) : log[i] = a

\* C1: every authentication run that returns ends either with a non-null
\* token after the login response reached the listing page, or with null
\* and config.session_id still holding the value it had before the run.
C1_AllOrNothing ==
    auth_result # "unset" =>
        \/ auth_result # None /\ listing_redirect
        \/ auth_result = None /\ config_session_id = prior_session_id

\* C2: construction authenticates at most once and only after the probe
\* failed; a valid probe leaves cookies, oracle, POST and config.session_id
\* untouched; a null result ends the construction in the fatal error without
\* a second oracle call or POST.
C2_AuthenticateOnceAfterProbe ==
    /\ Count(auth_log, "cookies.clear") <= 1
    /\ Count(auth_log, "oracle") <= 1
    /\ Count(auth_log, "POST submit-index.php") <= 1
    /\ \A e \in {"cookies.clear", "GET base_url", "GET captcha", "oracle",
                 "POST submit-index.php"} :
          Has(auth_log, e) => probe_valid = "False" /\ auth_log[1] = "GET protocols.php"
    /\ probe_valid = "True" =>
          /\ auth_log = <<"GET protocols.php">>
          /\ config_session_id = prior_session_id
          /\ auth_pc = "constructed"
    /\ auth_result = None => auth_pc = "raised" /\ ctor_exc = "Exception"

C2_Witness ==
    /\ auth_result = None
    /\ auth_pc = "raised"
    /\ Has(auth_log, "POST submit-index.php")

\* C3: on the oracle's failure value authenticate returns null (it does not
\* raise) without a credential POST; a credential POST is only ever issued
\* after the oracle returned a solved text in that call.
C3_UnsolvedShortCircuits ==
    /\ captcha_text = Unsolved =>
          /\ auth_result = None
          /\ ctor_exc # "TypeError"
          /\ ~Has(auth_log, "POST submit-index.php")
    /\ Has(auth_log, "POST submit-index.php") =>
          /\ captcha_text \notin {Unsolved, "unset"}
          /\ Before(auth_log, "oracle", "POST submit-index.php")

C3_Witness ==
    /\ captcha_text = Unsolved
    /\ auth_result = None
    /\ auth_log = <<"GET protocols.php", "cookies.clear", "GET base_url",
                    "GET captcha", "oracle">>

\* C9: a login page without the CAPTCHA image or without the anti-forgery
\* token field ends authenticate in an error (no token, no null) before the
\* CAPTCHA image is fetched, the oracle consulted or credentials POSTed.
C9_StructuralFailureAtStep2 ==
    (Has(auth_log, "GET base_url")
        /\ (~login_page.captcha_img \/ ~login_page.csrf_token)) =>
        /\ ~Has(auth_log, "GET captcha")
        /\ ~Has(auth_log, "oracle")
        /\ ~Has(auth_log, "POST submit-index.php")
        /\ auth_result = "unset"

-----------------------------------------------------------------------------
(* Claims about the amount conversion (SpecMoney)                          *)

\* ceil(n * 100 / 10^k), negated when neg: the exact decimal value.
ExactCeilTimes100(d) ==
    IF d.neg THEN 0 - ((d.n * 100) \div Pow10(d.k))
    ELSE (d.n * 100 + Pow10(d.k) - 1) \div Pow10(d.k)

\* C6: for an amount text made of a decimal number followed by the 4
\* character suffix the amount is ceil(value * 100), with exactly the last 4
\* characters stripped; "10.00XXXX" gives 1000, "10.001XXXX" 1001 and
\* "15.50GEL" 1550.
C6_AmountIsCeil ==
    money_pc = "done" =>
        /\ \A n \in NumberTexts :
              amount_col = <<TextNode(n \o Suffix4)>> =>
                  money_result = Returned(ExactCeilTimes100(ParseDecimal(n)))
        /\ amount_col = <<TextNode(<<"1", "0", ".", "0", "0">> \o Suffix4)>> =>
              money_result = Returned(1000)
        /\ amount_col = <<TextNode(<<"1", "0", ".", "0", "0", "1">> \o Suffix4)>> =>
              money_result = Returned(1001)
        /\ amount_col = <<TextNode(<<"1", "5", ".", "5", "0">> \o Suffix3)>> =>
              money_result = Returned(1550)

\* Whether a column holds a monetary value: a text whose part before the
\* last four characters is a decimal number.
Parsable(col) ==
    /\ Len(col) > 0
    /\ col[1].kind = "text"
    /\ ParseDecimal(DropLast(col[1].text, 4)).ok

\* C7: the amount is always a non-negative integer, and an amount column
\* without a parsable monetary value (no descendants, or a first descendant
\* that is no number followed by the suffix) yields 0, never a missing value.
C7_AmountTotal ==
    money_pc = "done" =>
        /\ money_result.raised = ""
        /\ money_result.value >= 0
        /\ ~Parsable(amount_col) => money_result.value = 0

-----------------------------------------------------------------------------
(* Claims about get_protocols (SpecScrape)                                 *)

\* The tag process_protocol_row reads a row's columns from.
InfoSource(row) ==
    IF row.a.present THEN [cols |-> row.a.cols, a |-> NoLink] ELSE row

DateOk(row) ==
    LET cols == find_all_cols(InfoSource(row))
    IN  Len(cols) >= 3 /\ format_date(cols[3]).raised = ""

\* The detail page fetched for row i.
DetailOf(i) == (CHOOSE d \in {details[k] : k \in 1..Len(details)} : d.row = i).page

HasWrapper(page) == page.content /\ page.inner /\ Len(page.sections) >= 2

\* The positions of the wrapper's div children.
DivPositions(w) == {j \in 1..Len(w) : w[j].name = "div"}

\* The position of the k-th div child of the wrapper.
NthDiv(w, k) ==
    CHOOSE j \in DivPositions(w) : Cardinality({x \in DivPositions(w) : x < j}) = k - 1

\* C4: get_protocols returns exactly one Protocol per row of the grid, in
\* the listing's row order, for rows with a detail link (columns read from
\* inside the link) and for rows without one (columns read from the row).
C4_OneProtocolPerRow ==
    sc_pc = "returned" =>
        /\ result.returned
        /\ Len(result.value) = Len(listing.rows)
        /\ \A i \in 1..Len(listing.rows) :
              LET row == listing.rows[i]
                  cols == IF row.a.present THEN row.a.cols ELSE row.cols
              IN  /\ result.value[i].protocol_number = Strings(cols[2])[1]
                  /\ result.value[i].protocol_number = ProtocolNoText(i)
                  /\ [result.value[i] EXCEPT !.media = <<>>]
                        = _get_protocol_info(InfoSource(row)).value

C4_Witness ==
    /\ sc_pc = "returned"
    /\ Len(result.value) = 2
    /\ listing.rows[1].a.present
    /\ ~listing.rows[2].a.present

SomeStepFails ==
    \/ sc_pc # "start" /\ ~listing.grid
    \/ \E i \in 1..Len(listing.rows) : ~DateOk(listing.rows[i])
    \/ \E k \in 1..Len(details) : ~HasWrapper(details[k].page)
    \/ \E k \in 1..Len(details) :
          /\ HasWrapper(details[k].page)
          /\ \E j \in DivPositions(details[k].page.sections[2]) :
                LET tag == details[k].page.sections[2][j]
                IN  ~tag.img /\ ~tag.ogg

\* C8: when a step of a get_protocols call fails the call ends in an error
\* and the caller receives no Protocol, not even those of rows already
\* processed.
C8_NoPartialResults ==
    /\ sc_pc = "raised" => result = NoResult /\ sc_exc # ""
    /\ SomeStepFails => ~result.returned /\ sc_pc # "returned"

C8_Witness ==
    /\ sc_pc = "raised"
    /\ Len(protocols) >= 1
    /\ SomeStepFails
    /\ result = NoResult

\* The request p is the last one of its row: no div child of the row's
\* wrapper lies after p's position.
LastOfRow(p) ==
    /\ p.kind # "listing"
    /\ HasWrapper(DetailOf(p.row))
    /\ \A j \in DivPositions(DetailOf(p.row).sections[2]) : j <= p.pos

\* C10: the listing GET comes first, and each linked row's detail GET and
\* its media GETs, in the detail page's markup order, are all issued before
\* any request of a later row.
C10_SequentialRequests ==
    /\ sc_pc # "start" /\ sc_pc # "idle" => Len(requests) >= 1
    /\ Len(requests) >= 1 => requests[1].kind = "listing"
    /\ \A k \in 2..Len(requests) :
          LET p == requests[k - 1]
              c == requests[k]
          IN  /\ c.kind # "listing"
              /\ c.kind = "detail" =>
                    /\ listing.rows[c.row].a.present
                    /\ c.row > p.row
                    /\ \A r \in (p.row + 1)..(c.row - 1) : ~listing.rows[r].a.present
                    /\ p.kind # "listing" => LastOfRow(p)
              /\ c.kind = "media" =>
                    /\ c.row = p.row
                    /\ c.pos > p.pos
                    /\ LET w == DetailOf(c.row).sections[2]
                       IN  /\ w[c.pos].name = "div"
                           /\ \A j \in (p.pos + 1)..(c.pos - 1) : w[j].name # "div"
    /\ sc_pc = "returned" =>
          \A i \in 1..Len(listing.rows) :
              listing.rows[i].a.present =>
                  /\ \E k \in 1..Len(requests) :
                        requests[k].kind = "detail" /\ requests[k].row = i
                  /\ \A j \in DivPositions(DetailOf(i).sections[2]) :
                        \E k \in 1..Len(requests) :
                            requests[k] = [kind |-> "media", row |-> i, pos |-> j]

C10_Witness ==
    /\ sc_pc = "returned"
    /\ Len(requests) = 6
    /\ requests[3] = [kind |-> "media", row |-> 1, pos |-> 1]
    /\ requests[4] = [kind |-> "media", row |-> 1, pos |-> 2]
    /\ requests[5] = [kind |-> "detail", row |-> 2, pos |-> 0]

====
